---------------------------- MODULE Spec2Model ----------------------------
(***************************************************************************)
(* Model of the password / passphrase generator                            *)
(*   src/CODIGO/generador_personalizado_contrasenas.py                     *)
(*   src/CODIGO/code.py                                                    *)
(*                                                                         *)
(* Strings are sequences of one-character strings, so that len(), join(),  *)
(* strip() and split() are computed and not assumed.  An Optional value is *)
(* a sequence of length at most one: None is << >> and a present value v   *)
(* is << v >>.  Entropies are fixed-point numbers in thousandths of a bit. *)
(***************************************************************************)
EXTENDS Integers, Sequences, FiniteSets, TLC

VARIABLES
    pc,                 \* position: "call"/"returned" of a function call,
                        \* "loop"/"exited" of main()
    call,               \* the function call under study and its arguments
    ret,                \* its outcome (a return value or a raised exception)
    args,               \* main(): the parsed command line (argparse Namespace)
    results,            \* main(): the list `results`
    stdout,             \* what the run has written to standard output
    stderr,             \* what the run has written to the error stream
    csvfile,            \* rows written to the CSV file at csv_path
    exitCode,           \* None while running, else the process exit status
    REQUESTS_AVAILABLE, \* module flag set by the import of `requests`
    wordlistFile,       \* environment: the file at --wordlist
    csvWritable,        \* environment: whether open(csv_path, 'w') succeeds
    sent                \* environment: the URLs requested from the remote API

vars == << pc, call, ret, args, results, stdout, stderr, csvfile, exitCode,
           REQUESTS_AVAILABLE, wordlistFile, csvWritable, sent >>

-----------------------------------------------------------------------------
(* Bounds of the model *)

\* longest password requested
MaxLen == 2
\* most words requested in a passphrase
MaxWords == 2
\* largest value of --count
MaxCount == 2
\* the random source returns one of the MaxRand lowest or MaxRand highest
\* indices of the sequence it draws from
MaxRand == 2
\* most lines in a body returned by the remote range query
MaxLines == 2
\* largest whole number of bits fed to strength_label
MaxBits == 90

-----------------------------------------------------------------------------
(* Python values *)

None == << >>
Some(v) == << v >>
IsNone(o) == o = << >>
TheValue(o) == o[1]
\* truthiness of an Optional[str]: None and "" are falsy
Truthy(o) == o # << >> /\ o[1] # << >>

Return(v) == [tag |-> "return", value |-> v, exc |-> ""]
Raise(e) == [tag |-> "raise", value |-> << >>, exc |-> e]
NoRet == [tag |-> "pending", value |-> << >>, exc |-> ""]

Max(a, b) == IF a >= b THEN a ELSE b

\* range(n): the number of iterations of `for _ in range(n)`
RangeLen(n) == IF n > 0 THEN n ELSE 0

Range(s) == {s[k] : k \in 1..Len(s)}

\* sep.join(parts) for sequences of characters
RECURSIVE Join(_, _)
Join(parts, sep) ==
    IF parts = << >> THEN << >>
    ELSE IF Len(parts) = 1 THEN parts[1]
    ELSE parts[1] \o sep \o Join(Tail(parts), sep)

\* the i-th smallest element of a set of integers
Nth(S, i) == CHOOSE p \in S : Cardinality({q \in S : q < p}) = i - 1

\* s.split(sep) with a one-character separator: the pieces between the
\* separators, always at least one piece
Split(s, sep) ==
    LET at == {k \in 1..Len(s) : s[k] = sep}
        n == Cardinality(at)
        cut(i) == IF i = 0 THEN 0
                  ELSE IF i = n + 1 THEN Len(s) + 1 ELSE Nth(at, i)
    IN  [i \in 1..(n + 1) |-> SubSeq(s, cut(i - 1) + 1, cut(i) - 1)]

Whitespace == {" ", "\t", "\n", "\r"}

RECURSIVE LStrip(_)
LStrip(s) ==
    IF s # << >> /\ Head(s) \in Whitespace THEN LStrip(Tail(s)) ELSE s

RECURSIVE RStrip(_)
RStrip(s) ==
    IF s # << >> /\ s[Len(s)] \in Whitespace
    THEN RStrip(SubSeq(s, 1, Len(s) - 1)) ELSE s

\* s.strip()
Strip(s) == RStrip(LStrip(s))

-----------------------------------------------------------------------------
(* The secure random source *)

\* secrets.randbelow(n), restricted to the w lowest and the w highest of its
\* values 0..n-1
RandBelow(n, w) == {r \in 0..(n - 1) : r < w \/ r >= n - w}

\* the outcomes of k successive draws below n (none when range(k) is empty)
Draws(n, k, w) == [1..RangeLen(k) -> RandBelow(n, w)]

\* secrets.choice(seq) given the index drawn
choice(seq, r) == seq[r + 1]

-----------------------------------------------------------------------------
(* Character pools *)

ascii_lowercase ==
    <<"a", "b", "c", "d", "e", "f", "g", "h", "i", "j", "k", "l", "m",
      "n", "o", "p", "q", "r", "s", "t", "u", "v", "w", "x", "y", "z">>

ascii_uppercase ==
    <<"A", "B", "C", "D", "E", "F", "G", "H", "I", "J", "K", "L", "M",
      "N", "O", "P", "Q", "R", "S", "T", "U", "V", "W", "X", "Y", "Z">>

digits ==
    <<"0", "1", "2", "3", "4", "5", "6", "7", "8", "9">>

SYMBOLS ==
    <<"!", "@", "#", "$", "%", "&", "*", "(", ")", "-", "_", "=", "+",
      "[", "]", "{", "}", ";", ":", ",", ".", "<", ">", "?", "/">>

\* a pool that holds the digits whether or not they are enabled
PoolDigitsAlways(minus, mayus, digitos, simbolos) ==
    (IF minus THEN ascii_lowercase ELSE << >>)
    \o (IF mayus THEN ascii_uppercase ELSE << >>)
    \o digits
    \o (IF simbolos THEN SYMBOLS ELSE << >>)

\* the pool assembled by generar_contrasena
Pool(minus, mayus, digitos, simbolos) ==
    (IF minus THEN ascii_lowercase ELSE << >>)
    \o (IF mayus THEN ascii_uppercase ELSE << >>)
    \o (IF digitos THEN digits ELSE << >>)
    \o (IF simbolos THEN SYMBOLS ELSE << >>)

\* a generator without the check of the empty pool
generar_contrasena_unchecked(longitud, minus, mayus, digitos, simbolos, rnd) ==
    LET pool == Pool(minus, mayus, digitos, simbolos)
    IN  IF pool = << >>
        THEN Return(<< >>)
        ELSE Return([j \in 1..RangeLen(longitud) |-> choice(pool, rnd[j])])

\* generar_contrasena with the indices rnd drawn by the random source
generar_contrasena(longitud, minus, mayus, digitos, simbolos, rnd) ==
    LET pool == Pool(minus, mayus, digitos, simbolos)
    IN  IF pool = << >>
        THEN Raise("ValueError")
        ELSE Return([j \in 1..RangeLen(longitud) |-> choice(pool, rnd[j])])

\* the draws generar_contrasena makes: none when it raises before drawing
ContrasenaDraws(longitud, minus, mayus, digitos, simbolos, w) ==
    LET pool == Pool(minus, mayus, digitos, simbolos)
    IN  IF pool = << >> THEN {<< >>} ELSE Draws(Len(pool), longitud, w)

-----------------------------------------------------------------------------
(* Passphrases *)

DEFAULT_EMBEDDED_WORDLIST ==
    << <<"s", "o", "l">>,
       <<"l", "u", "n", "a">>,
       <<"e", "s", "t", "r", "e", "l", "l", "a">>,
       <<"g", "a", "t", "o">>,
       <<"p", "e", "r", "r", "o">>,
       <<"v", "i", "e", "n", "t", "o">>,
       <<"m", "a", "r">>,
       <<"r", "o", "c", "a">>,
       <<"f", "u", "e", "g", "o">>,
       <<"r", "í", "o">>,
       <<"á", "r", "b", "o", "l">>,
       <<"m", "o", "n", "t", "a", "ñ", "a">>,
       <<"n", "u", "b", "e">>,
       <<"l", "l", "u", "v", "i", "a">>,
       <<"c", "a", "m", "p", "o">>,
       <<"c", "i", "u", "d", "a", "d">>,
       <<"p", "u", "e", "r", "t", "a">>,
       <<"l", "i", "b", "r", "o">>,
       <<"c", "a", "m", "i", "n", "o">>,
       <<"p", "u", "e", "n", "t", "e">>,
       <<"r", "e", "l", "o", "j">>,
       <<"p", "u", "ñ", "a", "d", "o">>,
       <<"l", "l", "a", "v", "e">>,
       <<"c", "i", "e", "l", "o">> >>

\* The wordlist files of the model: the lines a file iteration yields, each
\* with its line terminator, or a file that cannot be opened or decoded.
Unreadable == [readable |-> FALSE, lines |-> << >>]
FileOf(lines) == [readable |-> TRUE, lines |-> lines]

FileABC ==
    FileOf(<< <<"a", "\n">>,
              <<"b", "\n">>,
              <<"c", "\n">> >>)

FileBlank ==
    FileOf(<< <<"\n">>,
              <<" ", " ", "\n">>,
              <<"\t", "\n">> >>)

FileSpaces ==
    FileOf(<< <<"l", "a", " ", "l", "u", "z", "\n">>,
              <<" ", "s", "o", "l", " ", "\n">>,
              <<"\n">>,
              <<"m", "a", "r">> >>)

WordlistFiles == {Unreadable, FileABC, FileBlank, FileSpaces}

\* [w.strip() for w in f if w.strip()]
RECURSIVE StrippedLines(_)
StrippedLines(lines) ==
    IF lines = << >> THEN << >>
    ELSE IF Strip(Head(lines)) # << >>
         THEN << Strip(Head(lines)) >> \o StrippedLines(Tail(lines))
         ELSE StrippedLines(Tail(lines))

\* the list `words` generar_passphrase draws from; only called when the file,
\* if one is named, can be read
WordsOf(wordlist_path, file) ==
    LET words == IF Truthy(wordlist_path)
                 THEN StrippedLines(file.lines) ELSE << >>
    IN  IF words = << >> THEN DEFAULT_EMBEDDED_WORDLIST ELSE words

\* generar_passphrase with the file found at wordlist_path and the indices
\* rnd drawn by the random source
generar_passphrase(palabras, wordlist_path, file, rnd) ==
    IF Truthy(wordlist_path) /\ ~file.readable
    THEN Raise("RuntimeError")
    ELSE LET words == WordsOf(wordlist_path, file)
         IN  Return(Join([j \in 1..RangeLen(palabras) |->
                              choice(words, rnd[j])], << " " >>))

\* the draws generar_passphrase makes: none when it raises before drawing
PassphraseDraws(palabras, wordlist_path, file, w) ==
    IF Truthy(wordlist_path) /\ ~file.readable
    THEN {<< >>}
    ELSE Draws(Len(WordsOf(wordlist_path, file)), palabras, w)

-----------------------------------------------------------------------------
(* Entropy and strength label *)

\* b bits in thousandths of a bit
Milli(b) == b * 1000

\* math.log2(n) in thousandths of a bit, n in 1..40
Log2Table ==
    <<0, 1000, 1585, 2000, 2322, 2585, 2807, 3000, 3170, 3322, 3459, 3585,
      3700, 3807, 3907, 4000, 4087, 4170, 4248, 4322, 4392, 4459, 4524,
      4585, 4644, 4700, 4755, 4807, 4858, 4907, 4954, 5000, 5044, 5087,
      5129, 5170, 5209, 5248, 5285, 5322>>

Log2Milli(n) == Log2Table[n]

\* freq[ch] after the counting loop
Freq(s, ch) == Cardinality({k \in 1..Len(s) : s[k] = ch})

RECURSIVE SumOver(_, _, _)
SumOver(chars, s, length) ==
    IF chars = {} THEN 0
    ELSE LET ch == CHOOSE c \in chars : TRUE
             count == Freq(s, ch)
         IN  count * (Log2Milli(length) - Log2Milli(count))
             + SumOver(chars \ {ch}, s, length)

\* shannon_entropy in thousandths of a bit: the sum over the characters of
\* -p * log2(p) with p = count / length, times length, that is the sum of
\* count * (log2(length) - log2(count))
shannon_entropy(s) ==
    IF s = << >> THEN 0 ELSE SumOver(Range(s), s, Len(s))

\* round(ent, 2) in hundredths of a bit
Round2(milli) == (milli + 5) \div 10

\* thresholds that put the boundary values in the lower bracket
strength_label_inclusive(entropy_bits) ==
    IF entropy_bits <= Milli(28) THEN "Muy débil"
    ELSE IF entropy_bits <= Milli(36) THEN "Débil"
    ELSE IF entropy_bits <= Milli(60) THEN "Aceptable"
    ELSE IF entropy_bits <= Milli(80) THEN "Fuerte"
    ELSE "Muy fuerte"

strength_label(entropy_bits) ==
    IF entropy_bits < Milli(28) THEN "Muy débil"
    ELSE IF entropy_bits < Milli(36) THEN "Débil"
    ELSE IF entropy_bits < Milli(60) THEN "Aceptable"
    ELSE IF entropy_bits < Milli(80) THEN "Fuerte"
    ELSE "Muy fuerte"

-----------------------------------------------------------------------------
(* Pwned Passwords (k-anonymity) *)

\* hashlib.sha1(...).hexdigest().upper() is taken as an oracle: the digests
\* of the model are those of "a" and of "cielo"
Sha1A ==
    <<"8", "6", "F", "7", "E", "4", "3", "7", "F", "A", "A", "5", "A", "7",
      "F", "C", "E", "1", "5", "D", "1", "D", "D", "C", "B", "9", "E", "A",
      "E", "A", "E", "A", "3", "7", "7", "6", "6", "7", "B", "8">>

Sha1Cielo ==
    <<"B", "5", "4", "C", "F", "D", "A", "8", "9", "8", "2", "0", "C", "A",
      "F", "B", "7", "7", "F", "D", "4", "A", "8", "D", "6", "7", "4", "9",
      "C", "1", "4", "F", "6", "6", "2", "B", "2", "D", "1", "7">>

Sha1Samples == {Sha1A, Sha1Cielo}

RangeURL ==
    <<"h", "t", "t", "p", "s", ":", "/", "/", "a", "p", "i", ".", "p", "w",
      "n", "e", "d", "p", "a", "s", "s", "w", "o", "r", "d", "s", ".", "c",
      "o", "m", "/", "r", "a", "n", "g", "e", "/">>

\* sha1[:5] and sha1[5:]
PrefixOf(sha1) == SubSeq(sha1, 1, 5)
SuffixOf(sha1) == SubSeq(sha1, 6, Len(sha1))

\* a query that carries the whole digest
PwnedURLFullDigest(sha1) == RangeURL \o sha1

\* the url of the range query
PwnedURL(sha1) == RangeURL \o PrefixOf(sha1)

\* resp.text.splitlines(): a line ends at "\r\n", "\r" or "\n"; what follows
\* the last line break is a line only if it is not empty
splitlines(s) ==
    LET \* the last character of each line break
        ends == {k \in 1..Len(s) :
                    \/ s[k] = "\n"
                    \/ s[k] = "\r" /\ ~(k < Len(s) /\ s[k + 1] = "\n")}
        n == Cardinality(ends)
        end(i) == IF i = 0 THEN 0 ELSE Nth(ends, i)
        \* the last character of the line that the break at k ends
        last(k) == IF s[k] = "\n" /\ k > 1 /\ s[k - 1] = "\r"
                   THEN k - 2 ELSE k - 1
        ended == [i \in 1..n |-> SubSeq(s, end(i - 1) + 1, last(end(i)))]
    IN  IF end(n) < Len(s)
        THEN Append(ended, SubSeq(s, end(n) + 1, Len(s)))
        ELSE ended

DigitValue(ch) == CHOOSE d \in 0..9 : digits[d + 1] = ch

RECURSIVE DecimalValue(_)
DecimalValue(s) ==
    IF s = << >> THEN 0
    ELSE 10 * DecimalValue(SubSeq(s, 1, Len(s) - 1)) + DigitValue(s[Len(s)])

\* int(text): surrounding whitespace, an optional sign, decimal digits;
\* anything else is a ValueError
IntBody(text) ==
    LET t == Strip(text)
    IN  IF t # << >> /\ Head(t) \in {"+", "-"} THEN Tail(t) ELSE t

IsInt(text) ==
    IntBody(text) # << >> /\ \A k \in 1..Len(IntBody(text)) :
                                 IntBody(text)[k] \in Range(digits)

IntOf(text) ==
    LET t == Strip(text)
    IN  IF Head(t) = "-" THEN 0 - DecimalValue(IntBody(text))
        ELSE DecimalValue(IntBody(text))

\* the loop of pwned_count over the lines of the response
RECURSIVE ScanLines(_, _)
ScanLines(lines, suffix) ==
    IF lines = << >> THEN Return(Some(0))
    ELSE LET line == Head(lines)
             parts == Split(line, ":")
         IN  IF line = << >> THEN ScanLines(Tail(lines), suffix)
             ELSE IF Len(parts) # 2 THEN ScanLines(Tail(lines), suffix)
             ELSE IF parts[1] = suffix
                  THEN (IF IsInt(parts[2])
                        THEN Return(Some(IntOf(parts[2])))
                        ELSE Return(None))
             ELSE ScanLines(Tail(lines), suffix)

\* The outcome of requests.get: an exception (connection error, timeout), or
\* a response with a status code and a text.
GetRaises == [kind |-> "exception", status_code |-> 0, text |-> << >>]
Response(status, text) ==
    [kind |-> "response", status_code |-> status, text |-> text]

\* pwned_count, given the digest of the password and the outcome of the
\* request if one is made
pwned_count(available, sha1, outcome) ==
    IF ~available THEN Return(None)
    ELSE IF outcome.kind = "exception" THEN Return(None)
    ELSE IF outcome.status_code # 200 THEN Return(None)
    ELSE ScanLines(splitlines(outcome.text), SuffixOf(sha1))

\* the requests pwned_count sends
PwnedRequests(available, sha1) ==
    IF ~available THEN << >> ELSE << PwnedURL(sha1) >>

\* Response lines of the model for a digest suffix: a match with a count, a
\* match with a negative count, with a non-numeric count, with an empty
\* count, a line without colon, a line with several colons, another suffix,
\* an empty line.
OtherSuffix(suffix) == << "0" >> \o Tail(suffix)

SampleLines(suffix) ==
    { suffix \o << ":", "3" >>,
      suffix \o << ":", "-", "2" >>,
      suffix \o << ":", "x", "1" >>,
      suffix \o << ":" >>,
      suffix,
      suffix \o << ":", "1", ":", "2" >>,
      OtherSuffix(suffix) \o << ":", "7" >>,
      << >> }

\* the response texts of at most n lines, each line ended by "\r\n"
RECURSIVE EndLines(_)
EndLines(lines) ==
    IF lines = << >> THEN << >>
    ELSE Head(lines) \o << "\r", "\n" >> \o EndLines(Tail(lines))

Bodies(suffix, n) ==
    UNION { { EndLines(ls) : ls \in [1..k -> SampleLines(suffix)] } : k \in 0..n }

\* the outcomes of the request for a digest
Outcomes(sha1, n) ==
    {GetRaises}
    \cup { Response(404, << >>), Response(503, << "x" >>) }
    \cup { Response(200, b) : b \in Bodies(SuffixOf(sha1), n) }

-----------------------------------------------------------------------------
(* main() of generador_personalizado_contrasenas.py *)

\* for _ in range(max(1, args.count))
Iterations(count) == RangeLen(Max(1, count))

\* args.entropy or args.json or args.csv or args.check_pwned
WantsEntropy(a) == a.entropy \/ a.json \/ Truthy(a.csv) \/ a.check_pwned

\* per-record printing whenever --json is absent, --csv or not
TextModeIgnoringCsv(a) == ~a.json

\* not args.json and args.csv is None
TextMode(a) == ~a.json /\ IsNone(a.csv)

\* csv_path as computed from args.csv
CsvPath(a) ==
    IF IsNone(a.csv) THEN None
    ELSE IF Strip(TheValue(a.csv)) = << "-" >> THEN None
    ELSE Some(Strip(TheValue(a.csv)))

\* entry["pwned_count"]
PwnedField(a, available, sha1, outcome) ==
    IF a.check_pwned
    THEN IF ~available THEN None
         ELSE LET r == pwned_count(available, sha1, outcome)
              IN  IF r.tag = "raise" THEN None ELSE r.value
    ELSE None

\* the dict `entry` built for a generated value
Entry(a, value, pwned) ==
    [ value |-> value,
      entropy_bits |-> IF WantsEntropy(a)
                       THEN Some(Round2(shannon_entropy(value))) ELSE None,
      strength_label |-> IF WantsEntropy(a)
                         THEN Some(strength_label(shannon_entropy(value)))
                         ELSE None,
      pwned_count |-> pwned ]

NoEntry ==
    [ value |-> << >>, entropy_bits |-> None, strength_label |-> None,
      pwned_count |-> None ]

\* what is written to a stream: the format, and the record written
Written(fmt, record) == [fmt |-> fmt, record |-> record]

\* salida_texto as main calls it: a missing entropy prints as 0.0 and a
\* missing label as ""
salida_texto(e) ==
    Written("texto",
            [ value |-> e.value,
              entropy_bits |-> IF IsNone(e.entropy_bits)
                               THEN Some(0) ELSE e.entropy_bits,
              strength_label |-> IF IsNone(e.strength_label)
                                 THEN Some("") ELSE e.strength_label,
              pwned_count |-> e.pwned_count ])

salida_json(record) == Written("json", record)

\* writer.writeheader() and writer.writerow(r) for each record
CsvRows(records) ==
    << Written("csv-header", NoEntry) >>
    \o [k \in 1..Len(records) |-> Written("csv-row", records[k])]

\* salida_csv: what it prints, what it writes to the file, whether open()
\* raised
salida_csv(records, path, writable) ==
    IF records = << >>
    THEN [out |-> << >>, file |-> << >>, raised |-> FALSE]
    ELSE IF Truthy(path)
         THEN IF writable
              THEN [out |-> << Written("csv-escrito", NoEntry) >>,
                    file |-> CsvRows(records), raised |-> FALSE]
              ELSE [out |-> << >>, file |-> << >>, raised |-> TRUE]
         ELSE [out |-> CsvRows(records), file |-> << >>, raised |-> FALSE]

\* the digests hexdigest() may return for a value
Sha1Hex(password) ==
    IF password = << "a" >> THEN {Sha1A}
    ELSE IF password = << "c", "i", "e", "l", "o" >> THEN {Sha1Cielo}
    ELSE Sha1Samples

-----------------------------------------------------------------------------
(* Calls of the functions, one per specification *)

Idle ==
    /\ args = << >>
    /\ results = << >>
    /\ stdout = << >>
    /\ stderr = << >>
    /\ csvfile = << >>
    /\ exitCode = None

IdleEnv ==
    /\ REQUESTS_AVAILABLE = TRUE
    /\ wordlistFile = Unreadable
    /\ csvWritable = TRUE
    /\ sent = << >>

Lengths == -1..MaxLen
WordCounts == -1..MaxWords
Counts == -1..MaxCount

InitContrasena ==
    /\ pc = "call"
    /\ call \in [ longitud : Lengths, minus : BOOLEAN, mayus : BOOLEAN,
                  digitos : BOOLEAN, simbolos : BOOLEAN ]
    /\ ret = NoRet
    /\ Idle /\ IdleEnv

CallContrasena ==
    /\ pc = "call"
    /\ \E rnd \in ContrasenaDraws(call.longitud, call.minus, call.mayus,
                                  call.digitos, call.simbolos, MaxRand) :
           ret' = generar_contrasena(call.longitud, call.minus, call.mayus,
                                     call.digitos, call.simbolos, rnd)
    /\ pc' = "returned"
    /\ UNCHANGED << call, args, results, stdout, stderr, csvfile, exitCode,
                    REQUESTS_AVAILABLE, wordlistFile, csvWritable, sent >>

SpecContrasena == InitContrasena /\ [][CallContrasena]_vars

WordlistPaths == {None, Some(<< >>), Some(<< "w", ".", "t", "x", "t" >>)}

InitPassphrase ==
    /\ pc = "call"
    /\ call \in [ palabras : WordCounts, wordlist_path : WordlistPaths ]
    /\ ret = NoRet
    /\ Idle
    /\ REQUESTS_AVAILABLE = TRUE
    /\ wordlistFile \in WordlistFiles
    /\ csvWritable = TRUE
    /\ sent = << >>

CallPassphrase ==
    /\ pc = "call"
    /\ \E rnd \in PassphraseDraws(call.palabras, call.wordlist_path,
                                  wordlistFile, MaxRand) :
           ret' = generar_passphrase(call.palabras, call.wordlist_path,
                                     wordlistFile, rnd)
    /\ pc' = "returned"
    /\ UNCHANGED << call, args, results, stdout, stderr, csvfile, exitCode,
                    REQUESTS_AVAILABLE, wordlistFile, csvWritable, sent >>

SpecPassphrase == InitPassphrase /\ [][CallPassphrase]_vars

\* entropies fed to strength_label: around every whole number of bits
EntropySamples ==
    { Milli(b) + f : b \in 0..MaxBits, f \in {-1, 0, 1, 500} }

InitLabel ==
    /\ pc = "call"
    /\ call \in [ entropy_bits : EntropySamples ]
    /\ ret = NoRet
    /\ Idle /\ IdleEnv

CallLabel ==
    /\ pc = "call"
    /\ ret' = Return(Some(strength_label(call.entropy_bits)))
    /\ pc' = "returned"
    /\ UNCHANGED << call, args, results, stdout, stderr, csvfile, exitCode,
                    REQUESTS_AVAILABLE, wordlistFile, csvWritable, sent >>

SpecLabel == InitLabel /\ [][CallLabel]_vars

PwnedCalls ==
    UNION { { [ password |-> p, sha1 |-> h, outcome |-> o ] :
                o \in Outcomes(h, MaxLines) } :
            p \in { << "a" >>, << "c", "i", "e", "l", "o" >> }, h \in Sha1Samples }

InitPwned ==
    /\ pc = "call"
    /\ call \in { c \in PwnedCalls : c.sha1 \in Sha1Hex(c.password) }
    /\ ret = NoRet
    /\ Idle
    /\ REQUESTS_AVAILABLE \in BOOLEAN
    /\ wordlistFile = Unreadable
    /\ csvWritable = TRUE
    /\ sent = << >>

CallPwned ==
    /\ pc = "call"
    /\ ret' = pwned_count(REQUESTS_AVAILABLE, call.sha1, call.outcome)
    /\ sent' = sent \o PwnedRequests(REQUESTS_AVAILABLE, call.sha1)
    /\ pc' = "returned"
    /\ UNCHANGED << call, args, results, stdout, stderr, csvfile, exitCode,
                    REQUESTS_AVAILABLE, wordlistFile, csvWritable >>

SpecPwned == InitPwned /\ [][CallPwned]_vars

-----------------------------------------------------------------------------
(* A run of main(): the state after parse_args() and the banner, one step  *)
(* per iteration of the loop, one step for the collective output.          *)

CsvArgs ==
    {None, Some(<< "-" >>), Some(<< >>), Some(<< "o", ".", "c", "s", "v" >>)}

\* The command lines of the model.  The flags of the mode not chosen keep
\* their defaults.  Without --check-pwned: every combination of the other
\* flags.  With --check-pwned: one-character passwords and one-word
\* passphrases of the default pool and wordlist.
PasswordArgs ==
    [ longitud : Lengths, no_minus : BOOLEAN, no_mayus : BOOLEAN,
      no_digitos : BOOLEAN, simbolos : BOOLEAN, count : Counts,
      passphrase : {FALSE}, words : {5}, wordlist : {None},
      entropy : BOOLEAN, check_pwned : {FALSE}, json : BOOLEAN,
      csv : CsvArgs ]

PassphraseArgs ==
    [ longitud : {12}, no_minus : {FALSE}, no_mayus : {FALSE},
      no_digitos : {FALSE}, simbolos : {FALSE}, count : Counts,
      passphrase : {TRUE}, words : WordCounts, wordlist : WordlistPaths,
      entropy : BOOLEAN, check_pwned : {FALSE}, json : BOOLEAN,
      csv : CsvArgs ]

CheckPwnedArgs ==
    [ longitud : {1}, no_minus : {FALSE}, no_mayus : {FALSE},
      no_digitos : {FALSE}, simbolos : {FALSE}, count : Counts,
      passphrase : BOOLEAN, words : {1}, wordlist : {None},
      entropy : {FALSE}, check_pwned : {TRUE}, json : BOOLEAN,
      csv : {None, Some(<< "-" >>)} ]

Init ==
    /\ pc = "loop"
    /\ call = << >>
    /\ ret = NoRet
    /\ args \in PasswordArgs \cup PassphraseArgs \cup CheckPwnedArgs
    /\ results = << >>
    /\ stdout = << Written("banner", NoEntry) >>
    /\ stderr = << >>
    /\ csvfile = << >>
    /\ exitCode = None
    /\ REQUESTS_AVAILABLE \in (IF args.check_pwned THEN BOOLEAN ELSE {TRUE})
    /\ wordlistFile \in (IF Truthy(args.wordlist)
                         THEN WordlistFiles ELSE {Unreadable})
    /\ csvWritable \in (IF Truthy(CsvPath(args)) THEN BOOLEAN ELSE {TRUE})
    /\ sent = << >>

\* the value generated in an iteration, or the exception raised
Generated(a, file, rnd) ==
    IF a.passphrase
    THEN generar_passphrase(a.words, a.wordlist, file, rnd)
    ELSE generar_contrasena(a.longitud, ~a.no_minus, ~a.no_mayus,
                            ~a.no_digitos, a.simbolos, rnd)

\* the draws of an iteration: the random source returns the first or the
\* last index
GenerationDraws(a, file) ==
    IF a.passphrase
    THEN PassphraseDraws(a.words, a.wordlist, file, 1)
    ELSE ContrasenaDraws(a.longitud, ~a.no_minus, ~a.no_mayus,
                         ~a.no_digitos, a.simbolos, 1)

\* the outcomes of the request of an iteration, if it makes one
IterationOutcomes(a, available, sha1) ==
    IF a.check_pwned /\ available THEN Outcomes(sha1, 1) ELSE {GetRaises}

\* the body of the for loop, once
MainIteration ==
    /\ pc = "loop"
    /\ Len(results) < Iterations(args.count)
    /\ \E rnd \in GenerationDraws(args, wordlistFile) :
         LET gen == Generated(args, wordlistFile, rnd)
         IN  IF gen.tag = "raise"
             THEN /\ stderr' = Append(stderr, gen.exc)
                  /\ exitCode' = Some(1)
                  /\ pc' = "exited"
                  /\ UNCHANGED << results, stdout, sent >>
             ELSE \E sha1 \in Sha1Hex(gen.value) :
                  \E outcome \in IterationOutcomes(args, REQUESTS_AVAILABLE,
                                                   sha1) :
                    LET pwned == PwnedField(args, REQUESTS_AVAILABLE,
                                            sha1, outcome)
                        entry == Entry(args, gen.value, pwned)
                    IN  /\ results' = Append(results, entry)
                        /\ stdout' = IF TextMode(args)
                                     THEN Append(stdout, salida_texto(entry))
                                     ELSE stdout
                        /\ sent' = IF args.check_pwned
                                   THEN sent \o PwnedRequests(
                                            REQUESTS_AVAILABLE, sha1)
                                   ELSE sent
                        /\ UNCHANGED << stderr, exitCode, pc >>
    /\ UNCHANGED << call, ret, args, csvfile, REQUESTS_AVAILABLE,
                    wordlistFile, csvWritable >>

\* after the loop: the JSON lines, the CSV, and the end of the process; an
\* exception of open() in salida_csv is not caught and ends the process with
\* a traceback and status 1
MainCollective ==
    /\ pc = "loop"
    /\ Len(results) = Iterations(args.count)
    /\ LET jsonOut == IF args.json
                      THEN [k \in 1..Len(results) |-> salida_json(results[k])]
                      ELSE << >>
           csvOut == IF IsNone(args.csv)
                     THEN [out |-> << >>, file |-> << >>, raised |-> FALSE]
                     ELSE salida_csv(results, CsvPath(args), csvWritable)
       IN  /\ stdout' = stdout \o jsonOut \o csvOut.out
           /\ csvfile' = csvOut.file
           /\ stderr' = IF csvOut.raised
                        THEN Append(stderr, "Traceback") ELSE stderr
           /\ exitCode' = IF csvOut.raised THEN Some(1) ELSE Some(0)
    /\ pc' = "exited"
    /\ UNCHANGED << call, ret, args, results, REQUESTS_AVAILABLE,
                    wordlistFile, csvWritable, sent >>

\* the environment: the wordlist file is removed between two reads of it
EnvWordlist ==
    /\ pc = "loop"
    /\ args.passphrase
    /\ Truthy(args.wordlist)
    /\ wordlistFile.readable
    /\ wordlistFile' = Unreadable
    /\ UNCHANGED << pc, call, ret, args, results, stdout, stderr, csvfile,
                    exitCode, REQUESTS_AVAILABLE, csvWritable, sent >>

Next == MainIteration \/ MainCollective \/ EnvWordlist

Spec == Init /\ [][Next]_vars

-----------------------------------------------------------------------------
(* Properties *)

Alphabet(category) ==
    CASE category = "minus" -> Range(ascii_lowercase)
      [] category = "mayus" -> Range(ascii_uppercase)
      [] category = "digitos" -> Range(digits)
      [] category = "simbolos" -> Range(SYMBOLS)

Categories == {"minus", "mayus", "digitos", "simbolos"}

\* the categories a call of generar_contrasena enables
Enabled(c) ==
    {k \in Categories :
        \/ k = "minus" /\ c.minus
        \/ k = "mayus" /\ c.mayus
        \/ k = "digitos" /\ c.digitos
        \/ k = "simbolos" /\ c.simbolos}

\* sub occurs in s as a run of consecutive characters
Contains(s, sub) ==
    \E k \in 0..(Len(s) - Len(sub)) : SubSeq(s, k + 1, k + Len(sub)) = sub

\* the records written to a stream in a format, in the order written
Emitted(stream, fmt) ==
    LET Test(e) == e.fmt = fmt
        sel == SelectSeq(stream, Test)
    IN  [k \in 1..Len(sel) |-> sel[k].record]

\* every record written, in any format, to standard output or the CSV file
RecordsEmitted ==
    Emitted(stdout, "texto") \o Emitted(stdout, "json")
    \o Emitted(stdout, "csv-row") \o Emitted(csvfile, "csv-row")

Values(records) == [k \in 1..Len(records) |-> records[k].value]

\* the run ended inside the loop: a generation raised
GenerationFailed == pc = "exited" /\ Len(results) < Iterations(args.count)

\* the run ended in salida_csv: the CSV file could not be opened
CsvFailed ==
    /\ pc = "exited"
    /\ Len(results) = Iterations(args.count)
    /\ Truthy(CsvPath(args))
    /\ ~csvWritable

AllDisabled(a) == a.no_minus /\ a.no_mayus /\ a.no_digitos /\ ~a.simbolos

\* C1: a password returned by generar_contrasena has exactly the requested
\* length, for every requested length.
C1_LengthEqualsRequested ==
    (pc = "returned" /\ ret.tag = "return")
        => Len(ret.value) = call.longitud

\* C2: every character of a password returned by generar_contrasena belongs
\* to the alphabet of an enabled category and to the alphabet of no disabled
\* category.
C2_CharsInEnabledAlphabets ==
    (pc = "returned" /\ ret.tag = "return") =>
        \A k \in 1..Len(ret.value) :
            /\ \E c \in Enabled(call) : ret.value[k] \in Alphabet(c)
            /\ \A c \in Categories \ Enabled(call) :
                   ret.value[k] \notin Alphabet(c)

\* a two-character password from a pool without uppercase letters and
\* symbols: a lowercase letter, then a digit
C2_Witness ==
    /\ pc = "returned"
    /\ ret.tag = "return"
    /\ Enabled(call) = {"minus", "digitos"}
    /\ Len(ret.value) = 2
    /\ ret.value[1] \in Alphabet("minus")
    /\ ret.value[2] \in Alphabet("digitos")

NonPositiveRequest(a) ==
    \/ a.count <= 0
    \/ ~a.passphrase /\ a.longitud <= 0
    \/ a.passphrase /\ a.words <= 0

\* C4: a run with a non-positive length, word count or batch count is
\* rejected: it exits non-zero and produces no record.
C4_NonPositiveRejected ==
    (pc = "exited" /\ NonPositiveRequest(args)) =>
        /\ exitCode # Some(0)
        /\ results = << >>
        /\ RecordsEmitted = << >>

\* the entries of the wordlist configured for a call of generar_passphrase:
\* the non-blank lines of the file, stripped, or the embedded list when no
\* file is named or the file has no such line
ConfiguredWordlist(c, file) ==
    IF Truthy(c.wordlist_path) /\ StrippedLines(file.lines) # << >>
    THEN Range(StrippedLines(file.lines))
    ELSE Range(DEFAULT_EMBEDDED_WORDLIST)

\* C5: a passphrase returned by generar_passphrase splits on single spaces
\* into exactly `palabras` tokens, each an entry of the configured wordlist.
C5_PassphraseTokens ==
    (pc = "returned" /\ ret.tag = "return") =>
        LET tokens == Split(ret.value, " ")
        IN  /\ Len(tokens) = call.palabras
            /\ \A k \in 1..Len(tokens) :
                   tokens[k] \in ConfiguredWordlist(call, wordlistFile)

Rank(label) ==
    CASE label = "Muy débil" -> 0
      [] label = "Débil" -> 1
      [] label = "Aceptable" -> 2
      [] label = "Fuerte" -> 3
      [] label = "Muy fuerte" -> 4

\* C6: strength_label maps the bit count to the label of its bracket, below
\* 28, [28,36), [36,60), [60,80), 80 and above; 28, 36, 60 and 80 fall in
\* the higher bracket; the label never decreases when the bit count grows.
C6_StrengthLabelThresholds ==
    pc = "returned" =>
        LET e == call.entropy_bits
            label == TheValue(ret.value)
        IN  /\ ret.tag = "return"
            /\ (label = "Muy débil") <=> (e < 28000)
            /\ (label = "Débil") <=> (28000 <= e /\ e < 36000)
            /\ (label = "Aceptable") <=> (36000 <= e /\ e < 60000)
            /\ (label = "Fuerte") <=> (60000 <= e /\ e < 80000)
            /\ (label = "Muy fuerte") <=> (80000 <= e)
            /\ \A e2 \in EntropySamples :
                   e2 <= e => Rank(strength_label(e2)) <= Rank(label)

\* exactly 28 bits are labelled weak, not very weak
C6_Witness ==
    /\ pc = "returned"
    /\ call.entropy_bits = 28000
    /\ ret.value = Some("Débil")

\* C7: pwned_count returns a non-negative integer or None and never raises.
C7_PwnedNonNegativeOrUnavailable ==
    pc = "returned" =>
        /\ ret.tag = "return"
        /\ IsNone(ret.value) \/ TheValue(ret.value) >= 0

\* what a request carries after the fixed address of the range query
Payload(url) == SubSeq(url, Len(RangeURL) + 1, Len(url))

\* C8: pwned_count sends at most one request, made of the fixed address and
\* the first 5 characters of the digest; neither the rest of the digest nor
\* the password is in it; a response without the rest of the digest yields
\* the count 0.
C8_OnlyPrefixSent ==
    /\ pc = "call" => sent = << >>
    /\ pc = "returned" =>
        /\ Len(sent) <= 1
        /\ ~REQUESTS_AVAILABLE => sent = << >>
        /\ \A k \in 1..Len(sent) :
             \E h \in Sha1Hex(call.password) :
                /\ SubSeq(sent[k], 1, Len(RangeURL)) = RangeURL
                /\ Payload(sent[k]) = SubSeq(h, 1, 5)
                /\ ~Contains(Payload(sent[k]), SubSeq(h, 6, Len(h)))
                /\ ~Contains(Payload(sent[k]), call.password)
        /\ ( /\ REQUESTS_AVAILABLE
             /\ call.outcome.kind = "response"
             /\ call.outcome.status_code = 200
             /\ ~Contains(call.outcome.text, SuffixOf(call.sha1)) )
           => ret = Return(Some(0))

\* a request was sent for "cielo" and the count 3 found in the response
C8_Witness ==
    /\ pc = "returned"
    /\ call.password = << "c", "i", "e", "l", "o" >>
    /\ Len(sent) = 1
    /\ ret = Return(Some(3))

C10_ExactlyCountIterations ==
    (pc = "exited" /\ exitCode = Some(0)) => Len(results) = args.count

=============================================================================
